---- MODULE Spec2Model ----
(***************************************************************************)
(* Generational-index arena of src/src/ecs/indexed_array.rs: the Allocator *)
(* (slot table, free list, global version counter) and the IndexedArray    *)
(* value stores that share it.                                             *)
(*                                                                         *)
(* Rust vectors are 0-based; a vector is modelled as a TLA+ sequence and   *)
(* position i of the vector is element i + 1 of the sequence.              *)
(***************************************************************************)
EXTENDS Integers, Sequences, FiniteSets

\* ---------------------------------------------------------------- bounds
\* The slot table grows to at most MaxSlots records.
MaxSlots == 2
\* The global version counter is incremented at most MaxVersion times.
MaxVersion == 2
\* Values stored are 1..MaxValue.
MaxValue == 2
\* Number of value stores sharing the allocator.
NumStores == 2

\* `resize_with(i + 4, ..)` in IndexedArray::set
Padding == 4

\* Option::None for an Option<usize> / Option<Index> / Option<&T>
None == -1

Values == 1 .. MaxValue
Stores == 1 .. NumStores
\* The store that the single-store specifications use; the others stay empty.
OneStore == {1}

\* struct Index { index, version }
Index(i, v) == [index |-> i, version |-> v]
NoIndex == Index(None, None)
\* Handles a caller may pass: every slot of the largest table, one slot beyond
\* it, and every version the counter can take.
Indices == [index : 0 .. MaxSlots, version : 0 .. MaxVersion]

\* enum AllocatorEntry
Occupied(v) == [tag |-> "Occupied", version |-> v, next |-> None]
Free(n) == [tag |-> "Free", version |-> None, next |-> n]

\* Option<Entry<T>> of a value store
NoEntry == [some |-> FALSE, value |-> None, version |-> None]
Entry(val, v) == [some |-> TRUE, value |-> val, version |-> v]

VARIABLES
    entries,    \* Allocator.entries : Vec<AllocatorEntry>
    next,       \* Allocator.next    : Option<usize>, head of the free list
    version,    \* Allocator.version : u64, the global counter
    length,     \* Allocator.length  : usize
    list,       \* list[s] : IndexedArray.list of store s
    iter,       \* the iterator in use, if any (Iter / IterMut)
    yielded,    \* the items the iterator has returned so far, in order
    panicked,   \* the process has aborted on a panic
    op,         \* the last call: its name, arguments and result
    live,       \* history: handles returned by allocate, not yet deallocated
    retired,    \* history: handles whose deallocate succeeded
    issued,     \* history: handles returned by allocate
    freed,      \* history: slots deallocated and not reused, oldest first
    nalloc,     \* history: allocate calls since creation/reset
    ndealloc,   \* history: successful deallocate calls
    past,       \* history: a handle allocate returned before the last reset,
                \*          still held by the caller (NoIndex if none)
    wasReset,   \* history: reset() has been called
    peak        \* history: the most handles live at one time
\* live .. ndealloc record the calls since creation or the last reset.

allocVars == <<entries, next, version, length>>
histVars == <<live, retired, issued, freed, nalloc, ndealloc, past, wasReset, peak>>
iterVars == <<iter, yielded>>
vars == <<entries, next, version, length, list, iter, yielded, panicked, op,
          live, retired, issued, freed, nalloc, ndealloc, past, wasReset,
          peak>>

Max(a, b) == IF a >= b THEN a ELSE b

\* The allocator as one value, as the methods see `self`.
Self == [entries |-> entries, next |-> next, version |-> version, length |-> length]

\* ------------------------------------------------------------- Allocator

\* Vec::get / indexing at 0-based position i
At(s, i) == s[i + 1]
InRange(s, i) == i >= 0 /\ i < Len(s)

\* validate that forgets to compare the versions
validate_slotOnly(a, index) ==
    InRange(a.entries, index.index) /\ At(a.entries, index.index).tag = "Occupied"

\* Allocator::validate
validate(a, index) ==
    IF InRange(a.entries, index.index)
         /\ At(a.entries, index.index).tag = "Occupied"
    THEN At(a.entries, index.index).version = index.version
    ELSE FALSE

\* is_allocated that forgets to compare the versions
is_allocated_slotOnly(a, index) ==
    IF ~InRange(a.entries, index.index) THEN FALSE
    ELSE At(a.entries, index.index).tag = "Occupied"

\* Allocator::is_allocated
is_allocated(a, index) ==
    IF ~InRange(a.entries, index.index) THEN FALSE
    ELSE IF At(a.entries, index.index).tag = "Occupied"
         THEN At(a.entries, index.index).version = index.version
         ELSE FALSE

\* Allocator::len
len(a) == Len(a.entries)

\* Allocator::valid_count
valid_count(a) ==
    Cardinality({i \in 1 .. Len(a.entries) : a.entries[i].tag = "Occupied"})

\* index_at that stamps the handle with the global counter
index_at_globalVersion(a, i) ==
    IF InRange(a.entries, i) /\ At(a.entries, i).tag = "Occupied"
    THEN Index(i, a.version)
    ELSE NoIndex

\* Allocator::index_at
index_at(a, i) ==
    IF InRange(a.entries, i) /\ At(a.entries, i).tag = "Occupied"
    THEN Index(i, At(a.entries, i).version)
    ELSE NoIndex

\* grow that computes `len() - 1` before the push
grow_lastIndex(a) ==
    [a |-> [a EXCEPT !.entries = Append(@, Free(None))],
     i |-> IF Len(a.entries) = 0 THEN 0 ELSE Len(a.entries) - 1]

\* Allocator::grow: pushes one Free record, returns its position.
\* (`reserve` changes the capacity only, never the contents.)
grow(a) ==
    [a |-> [a EXCEPT !.entries = Append(@, Free(None))],
     i |-> Len(a.entries)]

\* try_allocate without `self.next = next`
try_allocate_keepHead(a) ==
    IF a.next = None
    THEN [a |-> a, ret |-> NoIndex, panic |-> FALSE]
    ELSE IF ~InRange(a.entries, a.next)
         THEN [a |-> a, ret |-> NoIndex, panic |-> TRUE]
    ELSE IF At(a.entries, a.next).tag = "Occupied"
         THEN [a |-> a, ret |-> NoIndex, panic |-> TRUE]
    ELSE [a |-> a, ret |-> Index(a.next, a.version), panic |-> FALSE]

\* Allocator::try_allocate: pops the head of the free list.
try_allocate(a) ==
    IF a.next = None
    THEN [a |-> a, ret |-> NoIndex, panic |-> FALSE]
    ELSE IF ~InRange(a.entries, a.next)
         THEN [a |-> a, ret |-> NoIndex, panic |-> TRUE]   \* index out of bounds
    ELSE IF At(a.entries, a.next).tag = "Occupied"
         THEN [a |-> a, ret |-> NoIndex, panic |-> TRUE]   \* "corrupt indexed array"
    ELSE [a |-> [a EXCEPT !.next = At(a.entries, a.next).next],
          ret |-> Index(a.next, a.version),
          panic |-> FALSE]

\* allocate that takes a new generation for each handle
allocate_bumpVersion(a) ==
    LET t == try_allocate(a)
        g == grow(t.a)
        a1 == IF t.ret = NoIndex THEN g.a ELSE t.a
        index == IF t.ret = NoIndex THEN Index(g.i, a.version) ELSE t.ret
    IN  IF t.panic
        THEN [a |-> a, ret |-> NoIndex, panic |-> TRUE]
        ELSE [a |-> [a1 EXCEPT !.entries[index.index + 1] = Occupied(a1.version),
                               !.version = @ + 1,
                               !.length = @ + 1],
              ret |-> index,
              panic |-> FALSE]

\* Allocator::allocate
allocate(a) ==
    LET t == try_allocate(a)
        g == grow(t.a)
        a1 == IF t.ret = NoIndex THEN g.a ELSE t.a
        index == IF t.ret = NoIndex THEN Index(g.i, a.version) ELSE t.ret
    IN  IF t.panic
        THEN [a |-> a, ret |-> NoIndex, panic |-> TRUE]
        ELSE [a |-> [a1 EXCEPT !.entries[index.index + 1] = Occupied(a1.version),
                               !.length = @ + 1],
              ret |-> index,
              panic |-> FALSE]

\* deallocate without `self.version += 1`
deallocate_keepVersion(a, index) ==
    IF validate(a, index)
    THEN IF a.length = 0
         THEN [a |-> a, ok |-> TRUE, panic |-> TRUE]
         ELSE [a |-> [a EXCEPT !.entries[index.index + 1] = Free(a.next),
                               !.next = index.index,
                               !.length = @ - 1],
               ok |-> TRUE,
               panic |-> FALSE]
    ELSE [a |-> a, ok |-> FALSE, panic |-> FALSE]

\* deallocate without `self.next = Some(index.index)`
deallocate_noPush(a, index) ==
    IF validate(a, index)
    THEN IF a.length = 0
         THEN [a |-> a, ok |-> TRUE, panic |-> TRUE]
         ELSE [a |-> [a EXCEPT !.entries[index.index + 1] = Free(a.next),
                               !.version = @ + 1,
                               !.length = @ - 1],
               ok |-> TRUE,
               panic |-> FALSE]
    ELSE [a |-> a, ok |-> FALSE, panic |-> FALSE]

\* deallocate that frees the record as `Free { next: None }`
deallocate_noLink(a, index) ==
    IF validate(a, index)
    THEN IF a.length = 0
         THEN [a |-> a, ok |-> TRUE, panic |-> TRUE]
         ELSE [a |-> [a EXCEPT !.entries[index.index + 1] = Free(None),
                               !.next = index.index,
                               !.version = @ + 1,
                               !.length = @ - 1],
               ok |-> TRUE,
               panic |-> FALSE]
    ELSE [a |-> a, ok |-> FALSE, panic |-> FALSE]

\* deallocate without the `if self.validate(&index)` test
deallocate_unchecked(a, index) ==
    IF ~InRange(a.entries, index.index) \/ a.length = 0
    THEN [a |-> a, ok |-> TRUE, panic |-> TRUE]
    ELSE [a |-> [a EXCEPT !.entries[index.index + 1] = Free(a.next),
                          !.next = index.index,
                          !.version = @ + 1,
                          !.length = @ - 1],
          ok |-> TRUE,
          panic |-> FALSE]

\* deallocate that pops the table when the freed slot is its last one
deallocate_popLast(a, index) ==
    IF validate(a, index)
    THEN IF a.length = 0
         THEN [a |-> a, ok |-> TRUE, panic |-> TRUE]
         ELSE IF index.index + 1 = Len(a.entries) /\ a.next = None
              THEN [a |-> [a EXCEPT !.entries = SubSeq(@, 1, Len(@) - 1),
                                    !.version = @ + 1,
                                    !.length = @ - 1],
                    ok |-> TRUE,
                    panic |-> FALSE]
              ELSE [a |-> [a EXCEPT !.entries[index.index + 1] = Free(a.next),
                                    !.next = index.index,
                                    !.version = @ + 1,
                                    !.length = @ - 1],
                    ok |-> TRUE,
                    panic |-> FALSE]
    ELSE [a |-> a, ok |-> FALSE, panic |-> FALSE]

\* Allocator::deallocate; ok tells whether the handle validated.
\* `self.length -= 1` on a zero length is an arithmetic overflow (panic).
deallocate(a, index) ==
    IF validate(a, index)
    THEN IF a.length = 0
         THEN [a |-> a, ok |-> TRUE, panic |-> TRUE]
         ELSE [a |-> [a EXCEPT !.entries[index.index + 1] = Free(a.next),
                               !.next = index.index,
                               !.version = @ + 1,
                               !.length = @ - 1],
               ok |-> TRUE,
               panic |-> FALSE]
    ELSE [a |-> a, ok |-> FALSE, panic |-> FALSE]

\* reset without `self.length = 0`
reset_keepLength(a) ==
    [entries |-> <<>>, next |-> None, version |-> 0, length |-> a.length]

\* reset without `self.version = 0`
reset_keepVersion(a) ==
    [entries |-> <<>>, next |-> None, version |-> a.version, length |-> 0]

\* Allocator::default, the state of a freshly constructed allocator
default == [entries |-> <<>>, next |-> None, version |-> 0, length |-> 0]

\* Allocator::reset
reset(a) == [entries |-> <<>>, next |-> None, version |-> 0, length |-> 0]

\* ------------------------------------------------------------ IndexedArray

\* Vec::resize_with(n, || None) on a vector shorter than n
Resize(l, n) == [k \in 1 .. n |-> IF k <= Len(l) THEN l[k] ELSE NoEntry]

\* set that keeps a value stored under another generation
set_keepOther(l, index, value) ==
    LET i == index.index
        l1 == IF i >= Len(l) THEN Resize(l, i + Padding) ELSE l
    IN  IF l1[i + 1].some /\ l1[i + 1].version # index.version
        THEN l1
        ELSE [l1 EXCEPT ![i + 1] = Entry(value, index.version)]

\* IndexedArray::set
set(l, index, value) ==
    LET i == index.index
        l1 == IF i >= Len(l) THEN Resize(l, i + Padding) ELSE l
    IN  [l1 EXCEPT ![i + 1] = Entry(value, index.version)]

\* unset that clears the array from the handle's position on
unset_truncate(l, index) ==
    IF index.index >= Len(l) THEN l
    ELSE [k \in 1 .. Len(l) |-> IF k >= index.index + 1 THEN NoEntry ELSE l[k]]

\* unset that clears only a value of the handle's own generation
unset_sameVersion(l, index) ==
    IF index.index >= Len(l) THEN l
    ELSE IF l[index.index + 1].version # index.version THEN l
    ELSE [l EXCEPT ![index.index + 1] = NoEntry]

\* IndexedArray::unset
unset(l, index) ==
    IF index.index >= Len(l) THEN l
    ELSE [l EXCEPT ![index.index + 1] = NoEntry]

\* IndexedArray::get; None when absent
get(l, index) ==
    IF InRange(l, index.index) /\ At(l, index.index).some
    THEN IF At(l, index.index).version = index.version
         THEN At(l, index.index).value
         ELSE None
    ELSE None

\* get_mut that forgets to compare the versions
get_mut_anyVersion(l, index) ==
    IF ~InRange(l, index.index) THEN None
    ELSE IF ~At(l, index.index).some THEN None
    ELSE At(l, index.index).value

\* IndexedArray::get_mut; the value the returned reference points at
get_mut(l, index) ==
    IF ~InRange(l, index.index) THEN None
    ELSE IF ~At(l, index.index).some THEN None
    ELSE IF At(l, index.index).version = index.version
         THEN At(l, index.index).value
         ELSE None

\* get_entities without the `validate` match
get_entities_noValidate(a, l) ==
    LET stored == [k \in 1 .. Len(l) |->
                      IF l[k].some THEN Index(k - 1, l[k].version) ELSE NoIndex]
    IN  SelectSeq(stored, LAMBDA h : h # NoIndex)

\* IndexedArray::get_entities: the handles (position, stored tag) of the
\* values held, in position order, that the allocator validates.
get_entities(a, l) ==
    LET stored == [k \in 1 .. Len(l) |->
                      IF l[k].some THEN Index(k - 1, l[k].version) ELSE NoIndex]
    IN  SelectSeq(stored, LAMBDA h : h # NoIndex /\ validate(a, h))

\* ------------------------------------------------------------- Iter, IterMut

\* No iterator exists.
NoIter ==
    [active |-> FALSE, store |-> None, mutable |-> FALSE, inner |-> 0,
     remaining |-> 0, done |-> FALSE, clean |-> TRUE]

\* Iter::new / IterMut::new over the list of store s: `inner` is the position
\* the enumeration stands at, `remaining` the slice length. `clean` (history)
\* tells that the allocator has not changed since.
iter_new(l, s, mutable) ==
    [active |-> TRUE, store |-> s, mutable |-> mutable, inner |-> 0,
     remaining |-> Len(l), done |-> FALSE, clean |-> TRUE]

\* The loop of Iter::next / IterMut::next: the first position from i on, below
\* the slice length n, that the allocator reports occupied; n when there is none.
RECURSIVE skip(_, _, _)
skip(a, n, i) ==
    IF i >= n THEN n
    ELSE IF index_at(a, i) # NoIndex THEN i
    ELSE skip(a, n, i + 1)

NoItem == [index |-> NoIndex, value |-> None, at |-> None]

\* next that walks the store's own values and never asks the allocator
iter_next_noAllocator(a, l, i) ==
    LET Held == {j \in i.inner .. Len(l) - 1 : At(l, j).some}
        j == IF Held = {} THEN Len(l)
             ELSE CHOOSE m \in Held : \A o \in Held : m <= o
    IN
    IF j >= Len(l)
    THEN [iter |-> [i EXCEPT !.inner = Len(l), !.remaining = 0, !.done = TRUE],
          item |-> NoItem,
          panic |-> FALSE]
    ELSE [iter |-> [i EXCEPT !.inner = j + 1,
                             !.remaining = @ - (j + 1 - i.inner)],
          item |-> [index |-> Index(j, At(l, j).version),
                    value |-> At(l, j).value,
                    at |-> j],
          panic |-> FALSE]

\* next that counts `remaining` down once a call, not once a position
iter_next_countCalls(a, l, i) ==
    LET j == skip(a, Len(l), i.inner) IN
    IF j >= Len(l)
    THEN [iter |-> [i EXCEPT !.inner = Len(l), !.done = TRUE],
          item |-> NoItem,
          panic |-> i.remaining # 0]
    ELSE [iter |-> [i EXCEPT !.inner = j + 1, !.remaining = @ - 1],
          item |-> [index |-> index_at(a, j),
                    value |-> IF At(l, j).some THEN At(l, j).value ELSE None,
                    at |-> j],
          panic |-> FALSE]

\* Iter::next / IterMut::next on list l: the iterator afterwards, the item
\* returned (NoItem for None), and whether debug_assert_eq!(remaining, 0) fails.
iter_next(a, l, i) ==
    LET j == skip(a, Len(l), i.inner) IN
    IF j >= Len(l)
    THEN [iter |-> [i EXCEPT !.inner = Len(l),
                             !.remaining = @ - (Len(l) - i.inner),
                             !.done = TRUE],
          item |-> NoItem,
          panic |-> i.remaining - (Len(l) - i.inner) # 0]
    ELSE [iter |-> [i EXCEPT !.inner = j + 1,
                             !.remaining = @ - (j + 1 - i.inner)],
          item |-> [index |-> index_at(a, j),
                    value |-> IF At(l, j).some THEN At(l, j).value ELSE None,
                    at |-> j],
          panic |-> FALSE]

\* The items of a whole pass of next() calls from iterator i on list l, as
\* `for item in store.iter()` collects them.
RECURSIVE collect(_, _, _)
collect(a, l, i) ==
    LET r == iter_next(a, l, i) IN
    IF r.item = NoItem THEN <<>> ELSE <<r.item>> \o collect(a, l, r.iter)

\* A write through the `&mut T` an IterMut item holds for position j.
edit(l, j, value) == [l EXCEPT ![j + 1].value = value]

\* ------------------------------------------------------------------ state

Call(name, s, arg, value, ret, ok) ==
    [name |-> name, store |-> s, arg |-> arg, value |-> value, ret |-> ret, ok |-> ok]

\* Allocator::default and IndexedArray::new
Init ==
    /\ entries = <<>>
    /\ next = None
    /\ version = 0
    /\ length = 0
    /\ list = [s \in Stores |-> <<>>]
    /\ iter = NoIter
    /\ yielded = <<>>
    /\ panicked = FALSE
    /\ op = Call("new", None, NoIndex, None, NoIndex, TRUE)
    /\ live = {}
    /\ retired = {}
    /\ issued = {}
    /\ freed = <<>>
    /\ nalloc = 0
    /\ ndealloc = 0
    /\ past = NoIndex
    /\ wasReset = FALSE
    /\ peak = 0

\* An allocator call changes the table under a live iterator.
Interleave(a) ==
    /\ iter' = IF iter.active /\ a # Self THEN [iter EXCEPT !.clean = FALSE] ELSE iter
    /\ UNCHANGED yielded

SetAllocator(a) ==
    /\ entries' = a.entries
    /\ next' = a.next
    /\ version' = a.version
    /\ length' = a.length

\* A call of allocate(). The table is let grow to MaxSlots records.
Allocate ==
    /\ ~panicked
    /\ next # None \/ Len(entries) < MaxSlots
    /\ LET r == allocate(Self) IN
        /\ SetAllocator(r.a)
        /\ panicked' = r.panic
        /\ op' = Call("allocate", None, NoIndex, None, r.ret, ~r.panic)
        /\ Interleave(r.a)
        /\ IF r.panic
           THEN UNCHANGED histVars
           ELSE /\ live' = live \cup {r.ret}
                /\ issued' = issued \cup {r.ret}
                /\ freed' = SelectSeq(freed, LAMBDA s : s # r.ret.index)
                /\ nalloc' = nalloc + 1
                /\ peak' = Max(peak, valid_count(r.a))
                /\ UNCHANGED <<retired, ndealloc, past, wasReset>>
    /\ UNCHANGED list

\* deallocate that also clears the handle's position in every store
Deallocate_notify(index) ==
    /\ ~panicked
    /\ validate(Self, index) => version < MaxVersion
    /\ LET r == deallocate(Self, index) IN
        /\ SetAllocator(r.a)
        /\ panicked' = r.panic
        /\ op' = Call("deallocate", None, index, None, NoIndex, r.ok)
        /\ Interleave(r.a)
        /\ IF r.ok /\ ~r.panic
           THEN /\ live' = live \ {index}
                /\ retired' = retired \cup {index}
                /\ freed' = Append(freed, index.index)
                /\ ndealloc' = ndealloc + 1
                /\ list' = [s \in Stores |-> unset(list[s], index)]
                /\ peak' = Max(peak, valid_count(r.a))
                /\ UNCHANGED <<issued, nalloc, past, wasReset>>
           ELSE UNCHANGED <<histVars, list>>

\* A call of deallocate(index), with any handle. The counter is let reach
\* MaxVersion.
Deallocate(index) ==
    /\ ~panicked
    /\ validate(Self, index) => version < MaxVersion
    /\ LET r == deallocate(Self, index) IN
        /\ SetAllocator(r.a)
        /\ panicked' = r.panic
        /\ op' = Call("deallocate", None, index, None, NoIndex, r.ok)
        /\ Interleave(r.a)
        /\ IF r.ok /\ ~r.panic
           THEN /\ live' = live \ {index}
                /\ retired' = retired \cup {index}
                /\ freed' = Append(freed, index.index)
                /\ ndealloc' = ndealloc + 1
                /\ peak' = Max(peak, valid_count(r.a))
                /\ UNCHANGED <<issued, nalloc, past, wasReset>>
           ELSE UNCHANGED histVars
    /\ UNCHANGED list

\* A call of reset(). The history starts again, as at creation; the caller
\* may keep one of the handles it was given before.
Reset ==
    /\ ~panicked
    /\ past' \in issued \cup {past}
    /\ wasReset' = TRUE
    /\ peak' = 0
    /\ SetAllocator(reset(Self))
    /\ Interleave(reset(Self))
    /\ op' = Call("reset", None, NoIndex, None, NoIndex, TRUE)
    /\ live' = {}
    /\ retired' = {}
    /\ issued' = {}
    /\ freed' = <<>>
    /\ nalloc' = 0
    /\ ndealloc' = 0
    /\ UNCHANGED <<list, panicked>>

\* The list of store s is borrowed by the iterator: `&mut self` methods of
\* that store do not compile while it lives.
Borrowed(s) == iter.active /\ iter.store = s

\* set on stores that share one array
Set_shared(s, index, value) ==
    /\ ~panicked
    /\ ~Borrowed(s)
    /\ list' = [t \in Stores |-> set(list[t], index, value)]
    /\ op' = Call("set", s, index, value, NoIndex, TRUE)
    /\ UNCHANGED <<allocVars, iterVars, panicked, histVars>>

\* A call of set(index, value) on store s.
Set(s, index, value) ==
    /\ ~panicked
    /\ ~Borrowed(s)
    /\ list' = [list EXCEPT ![s] = set(@, index, value)]
    /\ op' = Call("set", s, index, value, NoIndex, TRUE)
    /\ UNCHANGED <<allocVars, iterVars, panicked, histVars>>

\* A call of unset(index) on store s.
Unset(s, index) ==
    /\ ~panicked
    /\ ~Borrowed(s)
    /\ list' = [list EXCEPT ![s] = unset(@, index)]
    /\ op' = Call("unset", s, index, None, NoIndex, TRUE)
    /\ UNCHANGED <<allocVars, iterVars, panicked, histVars>>

\* A call of iter() on store s; the previous iterator, if any, is dropped.
IterNew(s) ==
    /\ ~panicked
    /\ iter' = iter_new(list[s], s, FALSE)
    /\ yielded' = <<>>
    /\ op' = Call("iter", s, NoIndex, None, NoIndex, TRUE)
    /\ UNCHANGED <<allocVars, list, panicked, histVars>>

\* A call of iter_mut() on store s.
IterMutNew(s) ==
    /\ ~panicked
    /\ iter' = iter_new(list[s], s, TRUE)
    /\ yielded' = <<>>
    /\ op' = Call("iter_mut", s, NoIndex, None, NoIndex, TRUE)
    /\ UNCHANGED <<allocVars, list, panicked, histVars>>

\* A call of next() on the iterator, until it has returned None.
IterNext ==
    /\ ~panicked
    /\ iter.active /\ ~iter.done
    /\ LET r == iter_next(Self, list[iter.store], iter) IN
        /\ iter' = r.iter
        /\ yielded' = IF r.item = NoItem THEN yielded ELSE Append(yielded, r.item)
        /\ panicked' = r.panic
        /\ op' = Call("next", iter.store, NoIndex, r.item.value, r.item.index,
                      r.item # NoItem)
    /\ UNCHANGED <<allocVars, list, histVars>>

\* A write of `value` through the mutable reference of the k-th item yielded.
IterEdit(k, value) ==
    /\ ~panicked
    /\ iter.active /\ iter.mutable
    /\ k \in 1 .. Len(yielded)
    /\ yielded[k].value # None
    /\ list' = [list EXCEPT ![iter.store] = edit(@, yielded[k].at, value)]
    /\ op' = Call("edit", iter.store, yielded[k].index, value, NoIndex, TRUE)
    /\ UNCHANGED <<allocVars, iterVars, panicked, histVars>>

\* The iterator goes out of scope.
IterDrop ==
    /\ ~panicked
    /\ iter.active
    /\ iter' = NoIter
    /\ yielded' = <<>>
    /\ op' = Call("drop", iter.store, NoIndex, None, NoIndex, TRUE)
    /\ UNCHANGED <<allocVars, list, panicked, histVars>>

\* Allocator alone, allocate and deallocate only.
NextAlloc ==
    \/ Allocate
    \/ \E index \in Indices : Deallocate(index)

SpecAlloc == Init /\ [][NextAlloc]_vars

\* Allocator alone, with reset.
NextReset ==
    \/ Allocate
    \/ \E index \in Indices : Deallocate(index)
    \/ Reset

SpecReset == Init /\ [][NextReset]_vars

\* Handles obtained from allocate at any earlier time: "every handle in the
\* system traces back to an allocate call".
Known == live \cup retired

\* Allocator and value stores under a caller that writes with the handles it
\* holds (live ones) and may release a handle more than once.
NextStore ==
    \/ Allocate
    \/ \E index \in Known : Deallocate(index)
    \/ \E s \in OneStore, index \in live, value \in Values : Set(s, index, value)
    \/ \E s \in OneStore, index \in live : Unset(s, index)

SpecStore == Init /\ [][NextStore]_vars

\* Value stores and their iterators; allocator calls interleave with next().
NextIter ==
    \/ Allocate
    \/ \E index \in Known : Deallocate(index)
    \/ \E s \in OneStore, index \in live, value \in Values : Set(s, index, value)
    \/ \E s \in OneStore : IterNew(s)
    \/ \E s \in OneStore : IterMutNew(s)
    \/ IterNext
    \/ \E k \in 1 .. Len(yielded), value \in Values : IterEdit(k, value)
    \/ IterDrop

SpecIter == Init /\ [][NextIter]_vars

\* Handles of every kind: live, stale, and one that allocate has not returned
\* (the slot just beyond the table, at the current version).
Args == Known \cup {Index(len(Self), version)}

\* Value stores written and cleared with handles of every kind.
NextAny ==
    \/ Allocate
    \/ \E index \in Known : Deallocate(index)
    \/ \E s \in OneStore, index \in Args, value \in Values : Set(s, index, value)
    \/ \E s \in OneStore, index \in Args : Unset(s, index)

SpecAny == Init /\ [][NextAny]_vars

\* Allocator with reset, and value stores.
NextStoreReset ==
    \/ Allocate
    \/ \E index \in Known : Deallocate(index)
    \/ Reset
    \/ \E s \in OneStore, index \in live, value \in Values : Set(s, index, value)
    \/ \E s \in OneStore, index \in live : Unset(s, index)

SpecStoreReset == Init /\ [][NextStoreReset]_vars

\* Several value stores over one allocator, written with the handles of a
\* growing population, cleared, and edited in place through iter_mut.
NextStores ==
    \/ Allocate
    \/ \E s \in Stores, index \in live, value \in Values : Set(s, index, value)
    \/ \E s \in Stores, index \in live : Unset(s, index)
    \/ \E s \in Stores : IterMutNew(s)
    \/ IterNext
    \/ \E k \in 1 .. Len(yielded), value \in Values : IterEdit(k, value)
    \/ IterDrop

SpecStores == Init /\ [][NextStores]_vars

\* Allocator with reset, and a value store written and cleared with any
\* handle allocate has returned since creation or the last reset.
NextKnownReset ==
    \/ Allocate
    \/ \E index \in Known : Deallocate(index)
    \/ Reset
    \/ \E s \in OneStore, index \in Known, value \in Values : Set(s, index, value)
    \/ \E s \in OneStore, index \in Known : Unset(s, index)

SpecKnownReset == Init /\ [][NextKnownReset]_vars

\* The whole interface.
Next ==
    \/ Allocate
    \/ \E index \in Known : Deallocate(index)
    \/ Reset
    \/ \E s \in Stores, index \in Known, value \in Values : Set(s, index, value)
    \/ \E s \in Stores, index \in Known : Unset(s, index)
    \/ \E s \in Stores : IterNew(s)
    \/ \E s \in Stores : IterMutNew(s)
    \/ IterNext
    \/ \E k \in 1 .. Len(yielded), value \in Values : IterEdit(k, value)
    \/ IterDrop

Spec == Init /\ [][Next]_vars

\* ------------------------------------------------------------------ claims

\* The handles the allocator reports occupied.
OccupiedHandles == {h \in Indices : validate(Self, h)}
\* Some record of the table is Free.
SomeFree == \E i \in 1 .. Len(entries) : entries[i].tag = "Free"

\* C1 (as claimed): after a successful deallocate(h), get(h) and get_mut(h)
\* return absent on every store, without any unset or later set.
C1_LazyDeletion ==
    \A h \in retired : \A s \in Stores :
        get(list[s], h) = None /\ get_mut(list[s], h) = None

\* C2: a handle whose deallocate succeeded never validates again, also when
\* its slot has been given out again.
C2_NoResurrection ==
    \A h \in retired : ~validate(Self, h) /\ ~is_allocated(Self, h)

C2_Witness ==
    \E h \in retired :
        InRange(entries, h.index) /\ At(entries, h.index).tag = "Occupied"

\* C3: live handles are pairwise different and sit on different slots, each
\* validates, and allocate never returns a handle that is live at that moment.
C3_Uniqueness ==
    /\ [](\A h1, h2 \in live :
            /\ validate(Self, h1)
            /\ h1 # h2 => h1.index # h2.index)
    /\ [][(Allocate /\ ~panicked') => (op'.ret \notin live /\ ~validate(Self, op'.ret))]_vars

C3_Witness ==
    op.name = "allocate" /\ Cardinality(live) >= 2 /\ retired # {}

\* C4 (as claimed): a complete run of iter() with no allocator call in between
\* yields exactly the handles the allocator reports occupied.
C4_IterationComplete ==
    (iter.active /\ ~iter.mutable /\ iter.done /\ iter.clean) =>
        {yielded[k].index : k \in 1 .. Len(yielded)} = OccupiedHandles

\* C5 (as claimed): set(h, v) makes get(h) return v; once h is deallocated and
\* its slot given to h2, get(h) is absent, before and after set(h2, v2).
C5_ReuseRoundTrip ==
    /\ op.name = "set" => get(list[op.store], op.arg) = op.value
    /\ \A h \in retired : \A h2 \in live :
            h2.index = h.index => \A s \in Stores : get(list[s], h) = None

\* C6: the generations of the handles allocate returns for one slot are
\* strictly increasing.
C6_GenerationMonotonic ==
    [][(Allocate /\ ~panicked') =>
        \A h \in issued : h.index = op'.ret.index => h.version < op'.ret.version]_vars

C6_Witness ==
    /\ op.name = "allocate"
    /\ \E h \in issued : h.index = op.ret.index /\ h # op.ret

\* C7: deallocate of a handle that does not validate does not panic and leaves
\* the slot table, the free-list head, the counter, the length and
\* valid_count() as they were.
C7_RejectedDeallocate ==
    [][\A index \in Indices :
        (op'.arg = index /\ ~validate(Self, index) /\ Deallocate(index)) =>
            /\ UNCHANGED allocVars
            /\ ~panicked'
            /\ valid_count(Self') = valid_count(Self)]_vars

C7_Witness ==
    op.name = "deallocate" /\ ~op.ok /\ op.arg \in retired /\ length >= 1

\* C8: validate(h) is true iff h.slot is inside the table, the record is
\* Occupied and its generation is h's; is_allocated(h) agrees with validate(h).
C8_ValidateMeaning ==
    \A h \in Indices :
        /\ validate(Self, h) <=>
              (/\ h.index < Len(entries)
               /\ entries[h.index + 1].tag = "Occupied"
               /\ entries[h.index + 1].version = h.version)
        /\ is_allocated(Self, h) <=> validate(Self, h)

C8_Witness ==
    /\ SomeFree
    /\ \E h1, h2 \in Indices :
          h1.index = h2.index /\ validate(Self, h1) /\ ~validate(Self, h2)
             /\ h2 \in retired

\* C9: the length counter equals valid_count(), the number of live handles and
\* the allocate calls minus the successful deallocate calls since creation or
\* the last reset, and never underflows.
C9_LengthCount ==
    /\ ~panicked
    /\ length >= 0
    /\ length = valid_count(Self)
    /\ length = Cardinality(live)
    /\ length = nalloc - ndealloc

C9_Witness ==
    /\ op.name = "deallocate" /\ op.ok
    /\ length >= 1
    /\ ndealloc >= 2

\* C10 (as claimed): with a free slot, allocate returns the slot deallocated
\* last among those not reused and the table keeps its size; with none, it
\* returns slot len() and the table grows by one. The handle's generation
\* exceeds that of every handle issued before for the slot.
C10_SlotChoiceEver ==
    [][(Allocate /\ ~panicked') =>
        /\ IF SomeFree
           THEN /\ freed # <<>>
                /\ op'.ret.index = freed[Len(freed)]
                /\ len(Self') = len(Self)
           ELSE /\ op'.ret.index = len(Self)
                /\ len(Self') = len(Self) + 1
        /\ \A h \in issued \cup ({past} \ {NoIndex}) :
              h.index = op'.ret.index => h.version < op'.ret.version]_vars

\* C10 (amended): the same, with the generation exceeding that of every handle
\* issued for the slot since creation or the last reset.
C10_SlotChoice ==
    [][(Allocate /\ ~panicked') =>
        /\ IF SomeFree
           THEN /\ freed # <<>>
                /\ op'.ret.index = freed[Len(freed)]
                /\ len(Self') = len(Self)
           ELSE /\ op'.ret.index = len(Self)
                /\ len(Self') = len(Self) + 1
        /\ \A h \in issued : h.index = op'.ret.index => h.version < op'.ret.version]_vars

C10_Witness ==
    /\ op.name = "allocate"
    /\ freed # <<>>
    /\ \E h \in retired : h.index = op.ret.index

\* A value is physically present at position h.index of list l, tagged with
\* h's generation.
Present(l, h) ==
    /\ h.index < Len(l)
    /\ l[h.index + 1].some
    /\ l[h.index + 1].version = h.version

\* C11: get(h) returns the stored value iff a value is present at h.slot with
\* h's generation, and absent in every other case; get_mut(h) is present in
\* the same cases and refers to the same value.
C11_GetMeaning ==
    \A s \in Stores : \A h \in Indices :
        /\ get(list[s], h) = IF Present(list[s], h)
                             THEN list[s][h.index + 1].value ELSE None
        /\ get_mut(list[s], h) = get(list[s], h)

\* A store holds a value under a stale tag, an empty position and a value
\* under a live handle's tag.
C11_Witness ==
    \E s \in Stores :
        /\ \E h \in Indices : h.index < Len(list[s]) /\ ~list[s][h.index + 1].some
        /\ \E h \in retired : Present(list[s], h)
        /\ \E h \in live : Present(list[s], h)

\* Every position of list l other than 0-based position i is the same in m.
OthersKept(l, m, i) ==
    \A p \in 1 .. Len(l) : p # i + 1 => (p <= Len(m) /\ m[p] = l[p])

\* The step is a set or unset on store s at slot i.
WritesSlot(s, i) ==
    \E h \in Args :
        /\ h.index = i
        /\ Unset(s, h) \/ \E value \in Values : Set(s, h, value)

\* C12: set(h, v) with any handle (live, stale, never returned by allocate)
\* makes get(h) return v, keeps every other position and the allocator as
\* they were; the value stays visible to get(h) until a set or unset on
\* that slot.
C12_SetVisible ==
    /\ [][\A s \in Stores, h \in Args, value \in Values :
            Set(s, h, value) =>
                /\ get(list'[s], h) = value
                /\ OthersKept(list[s], list'[s], h.index)
                /\ UNCHANGED allocVars
                /\ ~panicked']_vars
    /\ [][\A s \in Stores, h \in Indices :
            (get(list[s], h) # None /\ ~WritesSlot(s, h.index)) =>
                get(list'[s], h) = get(list[s], h)]_vars

\* The last call was a set with a handle that is not live, over a store that
\* holds another value.
C12_Witness ==
    /\ op.name = "set"
    /\ op.arg \notin live
    /\ \E h \in Indices : h.index # op.arg.index /\ Present(list[op.store], h)

\* C13: unset(h) empties position h.slot whatever the generation stored there:
\* get is absent for every handle of that slot, every other position is kept,
\* and beyond the array unset changes nothing and does not grow it.
C13_UnsetClears ==
    [][\A s \in Stores, h \in Args :
        Unset(s, h) =>
            /\ \A h2 \in Indices : h2.index = h.index => get(list'[s], h2) = None
            /\ OthersKept(list[s], list'[s], h.index)
            /\ Len(list'[s]) = Len(list[s])
            /\ h.index >= Len(list[s]) => list' = list
            /\ UNCHANGED allocVars
            /\ ~panicked']_vars

\* The last call was an unset with a stale handle on the slot of a live one.
C13_Witness ==
    /\ op.name = "unset"
    /\ op.arg \in retired
    /\ \E h \in live : h.index = op.arg.index
    /\ op.arg.index < Len(list[op.store])

\* C14: deallocate(h) affects only h: every other handle that was live before
\* the call still validates and get on every store returns for it what it
\* returned before.
C14_DeallocateFrame ==
    [][\A index \in Known :
        Deallocate(index) =>
            \A h \in Indices :
                (h # index /\ validate(Self, h)) =>
                    /\ validate(Self', h)
                    /\ \A s \in Stores : get(list'[s], h) = get(list[s], h)]_vars

\* A handle was deallocated while another live handle holds a value.
C14_Witness ==
    /\ op.name = "deallocate"
    /\ op.ok
    /\ \E h \in live, s \in Stores : Present(list[s], h)

\* C15 as stated: len() never decreases across any operation, reset included.
C15_LenNeverDecreases == [][len(Self') >= len(Self)]_vars

\* C15: len() never decreases across allocate, deallocate and the store
\* operations, and deallocate never changes it; reset() alone sets it to 0.
C15_GrowthOnly ==
    [][/\ Reset => len(Self') = 0
       /\ ~Reset => len(Self') >= len(Self)
       /\ \A index \in Known : Deallocate(index) => len(Self') = len(Self)]_vars

\* A slot was freed and the table kept it, with a value still in a store.
C15_Witness ==
    /\ op.name = "deallocate"
    /\ op.ok
    /\ len(Self) > valid_count(Self)
    /\ \E s \in Stores : list[s] # <<>>

\* C16: after reset() the allocator is in the state of a freshly constructed
\* one (len 0, valid_count 0, empty free list, counter 0), every handle fails
\* validate, and the next allocate returns slot 0 with generation 0.
C16_ResetFresh ==
    op.name = "reset" =>
        /\ Self = default
        /\ len(Self) = 0
        /\ valid_count(Self) = 0
        /\ next = None
        /\ version = 0
        /\ \A h \in Indices \cup ({past} \ {NoIndex}) : ~validate(Self, h)
        /\ allocate(Self).ret = Index(0, 0)
        /\ ~allocate(Self).panic

\* reset() was called after a handle of a later generation had been issued.
C16_Witness ==
    /\ op.name = "reset"
    /\ past # NoIndex
    /\ past.version >= 1

\* The positions the iterator has walked over in the step.
Visited == iter.inner .. iter'.inner - 1

\* C17: iter() yields items in strictly ascending position order, one at most
\* for a position; each yielded handle is the allocator's current handle of
\* that position and validates when it is yielded; a visited position is
\* yielded exactly when its slot is occupied, so a Free slot or a position
\* beyond the table is skipped whatever value the store holds there.
C17_IterationOrder ==
    /\ [](\A k \in 1 .. Len(yielded) - 1 : yielded[k].at < yielded[k + 1].at)
    /\ [](\A k \in 1 .. Len(yielded) : yielded[k].index.index = yielded[k].at)
    /\ []((op.name = "next" /\ op.ok) =>
            /\ validate(Self, op.ret)
            /\ index_at(Self, op.ret.index) = op.ret)
    /\ [][IterNext =>
            \A p \in Visited :
                (op'.ok /\ op'.ret.index = p) <=> index_at(Self, p) # NoIndex]_vars

\* The first item comes after a skipped Free position that still holds a value.
C17_Witness ==
    /\ op.name = "next"
    /\ op.ok
    /\ Len(yielded) = 1
    /\ iter.clean
    /\ \E p \in 0 .. op.ret.index - 1 :
        /\ index_at(Self, p) = NoIndex
        /\ At(list[op.store], p).some

\* C18: occupancy is read from the allocator when a position is visited: a
\* handle deallocated before the iterator reaches its position is not yielded,
\* the item of a visited position is the allocator's handle at that time, and
\* allocator calls leave the items already yielded as they are.
C18_PointInTime ==
    /\ []((op.name = "next" /\ op.ok) => (op.ret \in live /\ op.ret \notin retired))
    /\ [][(IterNext /\ op'.ok) =>
            /\ yielded'[Len(yielded')].index = index_at(Self, iter'.inner - 1)
            /\ SubSeq(yielded', 1, Len(yielded)) = yielded]_vars
    /\ [][(Allocate \/ \E index \in Known : Deallocate(index)) =>
            yielded' = yielded]_vars

\* The iterator yielded slot 0 and ended; slot 1 was deallocated under it
\* before it got there, and holds a value.
C18_Witness ==
    /\ op.name = "next"
    /\ ~op.ok
    /\ ~iter.clean
    /\ Len(yielded) = 1
    /\ yielded[1].index \in live
    /\ nalloc = 2
    /\ ndealloc = 1
    /\ \E h \in retired :
        /\ h.index > yielded[1].at
        /\ At(list[iter.store], h.index).some

\* C19: an iterator ends after at most as many positions as the store's array
\* has: each next() moves forward or returns None, `remaining` counts the
\* positions left and is 0 at the end (the debug assertion holds), whatever
\* allocator calls interleave; iter() and iter_mut() start at position 0.
C19_FiniteRestartable ==
    /\ [](iter.active =>
            /\ iter.inner + iter.remaining = Len(list[iter.store])
            /\ iter.remaining >= 0
            /\ Len(yielded) <= iter.inner
            /\ iter.done => iter.remaining = 0)
    /\ [](op.name = "next" => ~panicked)
    /\ []((op.name = "iter" \/ op.name = "iter_mut") =>
            /\ iter.inner = 0
            /\ ~iter.done
            /\ yielded = <<>>)
    /\ [][IterNext => (iter'.inner > iter.inner \/ iter'.done)]_vars

\* An iterator ended after items and skipped positions, with allocator calls
\* in between.
C19_Witness ==
    /\ op.name = "next"
    /\ ~op.ok
    /\ iter.done
    /\ ~iter.clean
    /\ Len(yielded) >= 1
    /\ Len(yielded) < Len(list[iter.store])

\* C20: a value written through the mutable reference that iter_mut yielded
\* for handle h is what get(h) returns.
C20_EditVisible ==
    op.name = "edit" => get(list[op.store], op.arg) = op.value

\* C21: allocate, deallocate and reset leave the contents of every value
\* store (values, generation tags, array length) as they were.
C21_AllocatorFrame ==
    [][(Allocate \/ Reset \/ \E index \in Known : Deallocate(index)) =>
        \A s \in Stores : list'[s] = list[s]]_vars

\* A handle was deallocated, or the allocator reset, while a store holds a
\* value under a handle that is live no more.
C21_Witness ==
    /\ op.name \in {"deallocate", "reset"}
    /\ op.ok
    /\ \E s \in Stores, h \in Indices : Present(list[s], h) /\ h \notin live

\* What iter() on list l returns, as the sequence of (handle, value) items.
IterItems(a, l) ==
    LET all == collect(a, l, iter_new(l, None, FALSE))
    IN  [k \in 1 .. Len(all) |-> <<all[k].index, all[k].value>>]

\* C22: set, unset and an iter_mut edit on one store change the result of
\* get(h), for every handle h, and of iter() on no other store.
C22_StoresIndependent ==
    [][\A s \in Stores :
        (op'.name \in {"set", "unset", "edit"} /\ op'.store = s) =>
            \A t \in Stores \ {s} :
                /\ \A h \in Indices : get(list'[t], h) = get(list[t], h)
                /\ IterItems(Self', list'[t]) = IterItems(Self, list[t])]_vars

\* One store was written for a handle that holds another value in another store.
C22_Witness ==
    /\ op.name \in {"set", "edit"}
    /\ \E t \in Stores \ {op.store} :
        /\ get(list[t], op.arg) # None
        /\ get(list[op.store], op.arg) # None
        /\ get(list[t], op.arg) # get(list[op.store], op.arg)

\* The slots met when following the `next` links from slot i, as try_allocate
\* follows them pop after pop; None marks a link to an Occupied record or
\* out of the table, or a walk longer than `fuel` records.
RECURSIVE free_list(_, _, _)
free_list(a, i, fuel) ==
    IF i = None THEN <<>>
    ELSE IF fuel = 0 \/ ~InRange(a.entries, i) \/ At(a.entries, i).tag # "Free"
         THEN <<None>>
    ELSE <<i>> \o free_list(a, At(a.entries, i).next, fuel - 1)

\* C23: following the next links from the free-list head visits every Free
\* record exactly once, no Occupied record and no index outside the table,
\* and ends at None.
C23_FreeListWellFormed ==
    LET chain == free_list(Self, next, Len(entries)) IN
        /\ \A k \in 1 .. Len(chain) : chain[k] # None
        /\ \A k, m \in 1 .. Len(chain) : k # m => chain[k] # chain[m]
        /\ {chain[k] : k \in 1 .. Len(chain)} =
               {i \in 0 .. Len(entries) - 1 : At(entries, i).tag = "Free"}

\* The free list links two records, after a reset.
C23_Witness ==
    /\ Len(free_list(Self, next, Len(entries))) = 2
    /\ past # NoIndex
    /\ ndealloc = 2

\* C24: allocate never fails: under allocate, reset, and deallocate with any
\* handle (stale, repeated, out of range), neither the "corrupt indexed array"
\* panic nor an out-of-bounds table access of allocate can occur.
C24_AllocateNeverFails ==
    /\ ~allocate(Self).panic
    /\ InRange(allocate(Self).a.entries, allocate(Self).ret.index)
    /\ next # None => InRange(entries, next)
    /\ op.name = "allocate" => (op.ok /\ ~panicked)

\* allocate reused a slot after a reset, with a free record left.
C24_Witness ==
    /\ op.name = "allocate"
    /\ op.ok
    /\ past # NoIndex
    /\ op.ret.version >= 1
    /\ SomeFree

\* C25: the handle allocate returns validates at once and carries the value
\* of the global counter; the counter goes up by one on each successful
\* deallocate and is changed by nothing else but reset (to 0), so between
\* resets it equals the number of successful deallocations, handles are
\* issued with non-decreasing generations whatever their slots, and no
\* Occupied record has a generation above the counter.
C25_GlobalCounter ==
    /\ []((op.name = "allocate" /\ op.ok) =>
            (validate(Self, op.ret) /\ op.ret.version = version))
    /\ [](version = ndealloc)
    /\ [](\A i \in 1 .. Len(entries) :
            entries[i].tag = "Occupied" => entries[i].version <= version)
    /\ [][version' = IF Reset THEN 0
                     ELSE IF op'.name = "deallocate" /\ op'.ok THEN version + 1
                     ELSE version]_vars
    /\ [][Allocate => \A h \in issued : h.version <= op'.ret.version]_vars

\* allocate returned a handle of a later generation than a live handle of
\* another slot.
C25_Witness ==
    /\ op.name = "allocate"
    /\ op.ok
    /\ op.ret.version = version
    /\ version >= 1
    /\ \E h \in live : h.index # op.ret.index /\ h.version < op.ret.version

\* C26 as stated: the handle allocate returns reads absent on every store,
\* reset() being among the calls made before.
C26_FreshAbsentEver ==
    [][Allocate => \A s \in Stores : get(list'[s], op'.ret) = None]_vars

\* C26: as long as reset() has not been called, the handle d that allocate
\* returns reads absent on every store, also when its slot holds a value of an
\* earlier occupant; a live handle that reads absent keeps reading absent
\* until set is called with it.
C26_FreshAbsent ==
    /\ [][(Allocate /\ ~wasReset) =>
            \A s \in Stores : get(list'[s], op'.ret) = None]_vars
    /\ [][\A s \in Stores, d \in live :
            (get(list[s], d) = None /\ ~\E value \in Values : Set(s, d, value)) =>
                get(list'[s], d) = None]_vars

\* allocate reused a slot that holds the value of an earlier occupant.
C26_Witness ==
    /\ op.name = "allocate"
    /\ op.ok
    /\ ~wasReset
    /\ \E s \in Stores :
        /\ InRange(list[s], op.ret.index)
        /\ At(list[s], op.ret.index).some
        /\ get(list[s], op.ret) = None

\* C27 as stated: a handle allocate returned before a reset() never validates
\* afterwards and is never returned again.
C27_UniqueAcrossReset ==
    past # NoIndex =>
        /\ ~validate(Self, past)
        /\ op.name = "allocate" => op.ret # past

\* C27: since creation or the last reset(), allocate never returns a (slot,
\* generation) pair it has returned before, and a deallocated handle never
\* validates; a handle from before a reset() validates only when the same
\* pair has been issued again since.
C27_UniqueBetweenResets ==
    /\ [][Allocate => op'.ret \notin issued]_vars
    /\ [](\A h \in retired : ~validate(Self, h))
    /\ []((past # NoIndex /\ validate(Self, past)) => past \in live)

\* After a reset, a slot was released and allocated again while the caller
\* holds a handle from before the reset.
C27_Witness ==
    /\ op.name = "allocate"
    /\ op.ok
    /\ wasReset
    /\ past # NoIndex
    /\ op.ret.version >= 1
    /\ \E h \in retired : h.index = op.ret.index

\* C28: every item (h, present v) that iter() or iter_mut() yields has
\* get(h) = v on that store: a value tagged with an earlier generation is
\* never paired with the live handle of its slot.
C28_NoStaleValue ==
    (op.name = "next" /\ op.ok /\ op.value # None) =>
        get(list[op.store], op.ret) = op.value

\* The step is a set or unset on store s with handle h2.
WritesWith(s, h2) == Unset(s, h2) \/ \E value \in Values : Set(s, h2, value)

\* C29 as stated: a set or unset with any other handle, a stale handle of the
\* same slot included, leaves get(h) of a live handle h as it was.
C29_UndisturbedEver ==
    [][\A s \in Stores, h \in live : \A h2 \in Known \ {h} :
        (get(list[s], h) # None /\ WritesWith(s, h2)) =>
            get(list'[s], h) = get(list[s], h)]_vars

\* C29: a set or unset with a handle of another slot leaves get(h) of a live
\* handle h as it was; with another handle of the same slot (a stale one) it
\* replaces or clears the value, and get(h) is absent afterwards.
C29_Undisturbed ==
    [][\A s \in Stores, h \in live : \A h2 \in Args \ {h} :
        (get(list[s], h) # None /\ WritesWith(s, h2)) =>
            IF h2.index # h.index
            THEN get(list'[s], h) = get(list[s], h)
            ELSE get(list'[s], h) = None]_vars

\* A store was written or cleared with a stale handle of a live handle's slot
\* while a live handle of another slot holds a value.
C29_Witness ==
    /\ op.name \in {"set", "unset"}
    /\ op.arg \in retired
    /\ \E h \in live : h.index = op.arg.index
    /\ \E h \in live : h.index # op.arg.index /\ get(list[op.store], h) # None

\* C30: get_entities() on a store returns, in ascending slot order, exactly
\* the handles (i, g) for which the store holds a value at position i tagged g
\* and the allocator validates (i, g); so each handle returned is live and
\* has get present, and each live handle with get present is returned.
C30_GetEntities ==
    \A s \in Stores :
        LET r == get_entities(Self, list[s])
            R == {r[k] : k \in 1 .. Len(r)}
        IN  /\ \A k \in 1 .. Len(r) - 1 : r[k].index < r[k + 1].index
            /\ R = {h \in Indices : Present(list[s], h) /\ validate(Self, h)}
            /\ \A h \in R : h \in live /\ get(list[s], h) # None
            /\ \A h \in live : get(list[s], h) # None => h \in R

\* A store holds the value of a live handle and a value under a stale tag,
\* and a live handle has no value: get_entities returns one handle.
C30_Witness ==
    \E s \in Stores :
        /\ Len(get_entities(Self, list[s])) = 1
        /\ \E h \in retired : Present(list[s], h)
        /\ \E h \in live : get(list[s], h) = None

\* C31: len() is the most handles that were live at one time since creation
\* or the last reset: valid_count() never exceeds len(), and the slot table
\* grows only when every slot it has is Occupied.
C31_HighWaterMark ==
    /\ [](valid_count(Self) <= len(Self))
    /\ [](len(Self) = peak)
    /\ [][len(Self') > len(Self) =>
            (valid_count(Self) = len(Self) /\ valid_count(Self') = len(Self'))]_vars

\* After a reset, allocate reused a slot of a table that keeps a free one.
C31_Witness ==
    /\ op.name = "allocate"
    /\ op.ok
    /\ wasReset
    /\ op.ret.version >= 1
    /\ valid_count(Self) < len(Self)

====
